---- MODULE Spec2Model ----
(***************************************************************************)
(* Model of Crawler.py: the asyncio crawl engine (Crawler, SpellReader),   *)
(* its Frontier (asyncio.Queue `todo`), its Seen Set, the worker tasks and *)
(* the completion logic of run(), together with UrlFilterer.filter_url.    *)
(*                                                                         *)
(* asyncio runs one task at a time; a task gives up control only at an     *)
(* await that really suspends.  Every action below is the code one task    *)
(* runs between two suspension points.                                     *)
(***************************************************************************)
EXTENDS Integers, Sequences, FiniteSets, TLC

\* ------------------------------------------------------------------ bounds
MaxLimit == 3
MaxWorkers == 2

\* ------------------------------------------------------------ URL universe
\* A URL is the 5-tuple urllib.parse works on; a reference found in a page
\* is the same record, with empty scheme and netloc when it is relative.
U(s, n, p, q, f) == [scheme |-> s, netloc |-> n, path |-> p, query |-> q, fragment |-> f]

NoUrl == U("", "", "", "", "")

A  == U("https", "example.test", "/a", "", "")
B  == U("https", "example.test", "/b", "", "")
P1 == U("https", "example.test", "/a", "?p=1", "")
P2 == U("https", "example.test", "/a", "?p=2", "")
P3 == U("https", "example.test", "/a", "?p=3", "")
R1 == U("https", "example.test", "/r", "?p=1", "")
X1 == U("https", "other.test", "/c", "?p=1", "")

\* references as they stand in an href attribute
hB    == U("", "", "/b", "", "")
hAfr  == U("", "", "/a", "", "#frag")
hC    == U("https", "other.test", "/c", "", "")
hQ1   == U("", "", "", "?p=1", "")
hQ2   == U("", "", "", "?p=2", "")
hQ3   == U("", "", "", "?p=3", "")
hJpg  == U("", "", "/d.jpg", "", "")
hLang == U("", "", "/b", "?lang=de", "")
hFtp  == U("ftp", "example.test", "/f", "?p=1", "")
hX1   == U("https", "other.test", "/c", "?p=1", "")
hBad  == U("http", "[bad", "", "", "")

\* urllib.parse.urlsplit raises ValueError("Invalid IPv6 URL") on a netloc
\* with an unbalanced bracket
Malformed(ref) == ref.netloc = "[bad"

\* pathlib.Path(path).suffix, tabulated on the paths of the universe
Suffix(path) ==
    CASE path = "/d.jpg" -> ".jpg"
      [] OTHER -> ""

\* `phrase in url` (substring of the whole URL text), tabulated on the
\* phrases the program and the configurations use
Contains(url, phrase) ==
    CASE phrase = "?p="   -> url.query \in {"?p=1", "?p=2", "?p=3"}
      [] phrase = "lang"  -> url.query = "?lang=de"
      [] OTHER -> FALSE

\* Optional[set]: None or a set
None == [isNone |-> TRUE, v |-> {}]
Some(S) == [isNone |-> FALSE, v |-> S]

\* ---------------------------------------------------------------- state
VARIABLES
    variant,            \* "Crawler" or "SpellReader": the class constructed
    limit,              \* Crawler.limit
    num_workers,        \* Crawler.num_workers
    start_urls,         \* Crawler.start_urls
    langs,              \* SpellReader.langs
    filterer,           \* the UrlFilterer whose filter_url is passed in
    web,                \* what client.get answers for each address
    todo,               \* Crawler.todo: the items in the asyncio.Queue
    unfinished_tasks,   \* Crawler.todo._unfinished_tasks
    seen,               \* Crawler.seen
    done,               \* Crawler.done
    total,              \* Crawler.total
    entries,            \* SpellReader.entries (the url of each record)
    runpc,              \* where run() stands
    pc,                 \* where each worker task stands
    url,                \* process_one's local `url` of each worker
    li,                 \* SpellReader.crawl: index of the lang being fetched
    cancelReq,          \* worker.cancel() was called on the task
    puts,               \* history: every address passed to todo.put
    gets,               \* history: every <<worker, address>> todo.get gave
    acks,               \* history: the address of every todo.task_done
    admits,             \* history: the argument of every on_found_links call
    failed,             \* history: addresses whose crawl raised
    fetched,            \* history: addresses for which the client.get of
                        \* Crawler.crawl answered
    events              \* history: the operations of the successful visits of
                        \* Crawler.crawl, in the order the code runs them

cfgvars == <<variant, limit, num_workers, start_urls, langs, filterer, web>>
histvars == <<puts, gets, acks, admits, failed, fetched, events>>
vars == <<variant, limit, num_workers, start_urls, langs, filterer, web,
          todo, unfinished_tasks, seen, done, total, entries,
          runpc, pc, url, li, cancelReq, puts, gets, acks, admits, failed,
          fetched, events>>

Workers == 1..num_workers

\* ------------------------------------------------- UrlFilterer.filter_url
\* urllib.parse.urljoin for the reference shapes of the universe
urljoin(base, ref) ==
    IF ref.scheme # "" /\ ref.scheme # base.scheme THEN ref
    ELSE IF ref.netloc # "" THEN [ref EXCEPT !.scheme = base.scheme]
    ELSE IF ref.path = ""
         THEN [base EXCEPT !.query = IF ref.query = "" THEN base.query ELSE ref.query,
                           !.fragment = ref.fragment]
         ELSE [ref EXCEPT !.scheme = base.scheme, !.netloc = base.netloc]

urldefrag(u) == [u EXCEPT !.fragment = ""]

Url(u)  == [tag |-> "url", url |-> u]
Reject  == [tag |-> "None", url |-> NoUrl]
Raised  == [tag |-> "ValueError", url |-> NoUrl]

filter_url(f, base, ref) ==
    IF Malformed(ref) THEN Raised
    ELSE LET u == urldefrag(urljoin(base, ref)) IN
         IF ~f.allowed_schemes.isNone /\ u.scheme \notin f.allowed_schemes.v THEN Reject
         ELSE IF ~f.allowed_domains.isNone /\ u.netloc \notin f.allowed_domains.v THEN Reject
         ELSE IF ~f.allowed_filetypes.isNone /\ Suffix(u.path) \notin f.allowed_filetypes.v THEN Reject
         ELSE IF ~f.blocked_phrases.isNone /\ (\E p \in f.blocked_phrases.v : Contains(u, p)) THEN Reject
         ELSE Url(u)

\* UrlParser.feed: every href goes through filter_url; an exception of
\* filter_url leaves feed
ParseRaises(f, base, hrefs) == \E h \in hrefs : filter_url(f, base, h).tag = "ValueError"

parse_links(f, base, hrefs) ==
    {filter_url(f, base, h).url : h \in {g \in hrefs : filter_url(f, base, g).tag = "url"}}

\* --------------------------------------------------- the admission path
\* The shared crawl state the admission path reads and writes
Cur == [seen |-> seen, todo |-> todo, total |-> total,
        unfinished_tasks |-> unfinished_tasks]

\* a put that does not count the item as unfinished
QueuePut_nocount(st, u) == [st EXCEPT !.todo = Append(@, u)]

\* asyncio.Queue.put on an unbounded queue: never suspends
QueuePut(st, u) ==
    [st EXCEPT !.todo = Append(@, u), !.unfinished_tasks = @ + 1]

\* put_todo without the `total >= limit` return
Crawler_put_todo_nolimit(st, u) ==
    IF ~Contains(u, "?p=") THEN st
    ELSE QueuePut([st EXCEPT !.total = @ + 1], u)

\* put_todo comparing `total > limit`
Crawler_put_todo_offbyone(st, u) ==
    IF st.total > limit THEN st
    ELSE IF ~Contains(u, "?p=") THEN st
    ELSE QueuePut([st EXCEPT !.total = @ + 1], u)

\* put_todo with `self.total += 1` above the '?p=' test
Crawler_put_todo_countfirst(st, u) ==
    IF st.total >= limit THEN st
    ELSE IF ~Contains(u, "?p=") THEN [st EXCEPT !.total = @ + 1]
    ELSE QueuePut([st EXCEPT !.total = @ + 1], u)

\* put_todo that counts first and tests the limit afterwards
Crawler_put_todo_latecheck(st, u) ==
    IF ~Contains(u, "?p=") THEN st
    ELSE IF st.total + 1 > limit THEN [st EXCEPT !.total = @ + 1]
    ELSE QueuePut([st EXCEPT !.total = @ + 1], u)

\* Crawler.put_todo
Crawler_put_todo(st, u) ==
    IF st.total >= limit THEN st
    ELSE IF ~Contains(u, "?p=") THEN st
    ELSE QueuePut([st EXCEPT !.total = @ + 1], u)

\* SpellReader without its own put_todo: the inherited one, with the '?p='
\* test
SpellReader_put_todo_inherited(st, u) ==
    IF st.total >= limit THEN st
    ELSE IF ~Contains(u, "?p=") THEN st
    ELSE QueuePut([st EXCEPT !.total = @ + 1], u)

\* SpellReader.put_todo
SpellReader_put_todo(st, u) ==
    IF st.total >= limit THEN st
    ELSE QueuePut([st EXCEPT !.total = @ + 1], u)

put_todo(st, u) ==
    IF variant = "SpellReader" THEN SpellReader_put_todo(st, u)
    ELSE Crawler_put_todo(st, u)

\* the orders in which `for url in new` may iterate the set
Orders(S) == {o \in [1..Cardinality(S) -> S] : \A i, j \in DOMAIN o : o[i] = o[j] => i = j}

RECURSIVE PutEach(_, _, _)
PutEach(st, order, i) ==
    IF i > Len(order) THEN st
    ELSE PutEach(put_todo(st, order[i]), order, i + 1)

\* on_found_links without `self.seen.update(new)`
on_found_links_noupdate(st, urls) ==
    LET new == urls \ st.seen
    IN  {PutEach(st, o, 1) : o \in Orders(new)}

\* on_found_links with `new = urls`
on_found_links_nodiff(st, urls) ==
    LET new == urls
    IN  {PutEach([st EXCEPT !.seen = @ \cup new], o, 1) : o \in Orders(new)}

\* on_found_links that records in seen only the addresses it enqueued
on_found_links_seenadmitted(st, urls) ==
    LET new == urls \ st.seen
    IN  {[r EXCEPT !.seen = @ \cup {r.todo[i] : i \in (Len(st.todo) + 1)..Len(r.todo)}] :
            r \in {PutEach(st, o, 1) : o \in Orders(new)}}

\* Crawler.on_found_links: the states it can leave, one per order in which
\* `for url in new` iterates the set
on_found_links(st, urls) ==
    LET new == urls \ st.seen
    IN  {PutEach([st EXCEPT !.seen = @ \cup new], o, 1) : o \in Orders(new)}

\* a task_done that leaves the counter alone
task_done_noop(st) == st

\* asyncio.Queue.task_done
task_done(st) == [st EXCEPT !.unfinished_tasks = @ - 1]

\* write a shared crawl state back, recording what was put on the queue
Store(st) ==
    /\ seen' = st.seen
    /\ todo' = st.todo
    /\ total' = st.total
    /\ unfinished_tasks' = st.unfinished_tasks
    /\ puts' = puts \o SubSeq(st.todo, Len(todo) + 1, Len(st.todo))

\* ------------------------------------------------------ configurations
X2 == U("https", "other.test", "/c", "?p=2", "")

page(final, hrefs) == [final |-> final, hrefs |-> hrefs]

\* the filter of the scenario of the specification's section 8
RuleTest == [allowed_domains   |-> Some({"example.test"}),
             allowed_schemes   |-> Some({"https"}),
             allowed_filetypes |-> Some({"", ".html"}),
             blocked_phrases   |-> None]

\* the filter main() builds, on the hosts of the universe
RuleMain == [allowed_domains   |-> Some({"example.test"}),
             allowed_schemes   |-> Some({"http", "https"}),
             allowed_filetypes |-> Some({".html", ".php", ""}),
             blocked_phrases   |-> Some({"lang", "releases/"})]

\* UrlFilterer() with every argument left at None
RuleNone == [allowed_domains |-> None, allowed_schemes |-> None,
             allowed_filetypes |-> None, blocked_phrases |-> None]

\* /a links to /b, /a#frag and https://other.test/c; /b has no links
WebTest == (A :> page(A, {hB, hAfr, hC})) @@ (B :> page(B, {}))

\* paginated listing: ?p=1 links to the pages 2 and 3 and to addresses the
\* filter or the admission refuses; page 3 carries a malformed href
WebPages == (P1 :> page(P1, {hQ2, hQ3, hB, hJpg, hLang, hFtp, hX1}))
         @@ (P2 :> page(P2, {hQ1, hQ3, hAfr}))
         @@ (P3 :> page(P3, {hBad, hB}))

\* /r?p=1 redirects to the other host, relative links resolve there
WebRedirect == (R1 :> page(X1, {hQ1, hQ2}))
            @@ (X2 :> page(X2, {hQ2, hX1}))

Scenarios ==
    { [start |-> {A},      web |-> WebTest,     rule |-> RuleTest],
      [start |-> {P1},     web |-> WebPages,    rule |-> RuleMain],
      [start |-> {P1, P2}, web |-> WebPages,    rule |-> RuleMain],
      [start |-> {A, P3},  web |-> WebPages,    rule |-> RuleMain],
      [start |-> {R1},     web |-> WebRedirect, rule |-> RuleNone] }

\* what client.get(url, follow_redirects=True) answers when it answers
Page(u) == IF u \in DOMAIN web THEN web[u] ELSE page(u, {})

\* the url lists and lang lists SpellReader is constructed with
MaxSeeds == 2
SeqsUpTo(S, n) == UNION {[1..k -> S] : k \in 0..n}
SpellUrls == SeqsUpTo({A, B}, MaxSeeds)
SpellLangs == {<<>>, <<"en">>, <<"en", "de">>}

Range(s) == {s[i] : i \in DOMAIN s}

\* ------------------------------------------------------------------ Init
\* the state after Crawler.__init__ / SpellReader.__init__
InitDynamic ==
    /\ todo = <<>>
    /\ unfinished_tasks = 0
    /\ seen = {}
    /\ done = {}
    /\ total = 0
    /\ entries = <<>>
    /\ runpc = "start"
    /\ pc = [w \in Workers |-> "none"]
    /\ url = [w \in Workers |-> NoUrl]
    /\ li = [w \in Workers |-> 0]
    /\ cancelReq = [w \in Workers |-> FALSE]
    /\ puts = <<>>
    /\ gets = <<>>
    /\ acks = <<>>
    /\ admits = <<>>
    /\ failed = {}
    /\ fetched = {}
    /\ events = <<>>

InitCrawler ==
    /\ variant = "Crawler"
    /\ \E sc \in Scenarios :
        /\ start_urls = sc.start
        /\ web = sc.web
        /\ filterer = sc.rule
    /\ limit \in 0..MaxLimit
    /\ langs = <<>>

InitSpellReader ==
    /\ variant = "SpellReader"
    /\ \E us \in SpellUrls :
        /\ start_urls = Range(us)
        /\ limit = Len(us)
    /\ langs \in SpellLangs
    /\ web = WebTest
    /\ filterer = RuleNone

Init ==
    /\ num_workers \in 1..MaxWorkers
    /\ (InitCrawler \/ InitSpellReader)
    /\ InitDynamic

\* ------------------------------------------------------- run and workers
\* a join that only waits for the queue to be empty
join_returns_empty(st) == st.todo = <<>>

\* asyncio.Queue.join: returns once no put item is left unacknowledged
join_returns(st) == ~(st.unfinished_tasks > 0)

\* `for worker in workers: worker.cancel()`, then run() returns
CancelAll == [w \in Workers |-> TRUE]

\* process_one with task_done in an `else` instead of the `finally`
process_one_end_noack(st, exc) ==
    [st |-> IF exc = "none" THEN task_done(st) ELSE st,
     exc |-> IF exc = "Exception" THEN "none" ELSE exc]

\* process_one without the `except Exception` clause
process_one_end_noswallow(st, exc) ==
    [st |-> task_done(st), exc |-> exc]

\* process_one from the end of crawl on: `except Exception` swallows every
\* exception but CancelledError (a BaseException), `finally` acknowledges
process_one_end(st, exc) ==
    [st |-> task_done(st), exc |-> IF exc = "Exception" THEN "none" ELSE exc]

\* worker without the `while True`: one process_one, then return
worker_loop_once(exc) ==
    CASE exc = "none" -> "exited"
      [] exc = "CancelledError" -> "exited"
      [] OTHER -> "crashed"

\* worker with `except asyncio.CancelledError: pass`: the loop goes on
worker_loop_nocancel(exc) ==
    CASE exc = "none" -> "get"
      [] exc = "CancelledError" -> "get"
      [] OTHER -> "crashed"

\* worker: the loop goes on after process_one returns, returns on
\* CancelledError, and any other exception ends the task
worker_loop(exc) ==
    CASE exc = "none" -> "get"
      [] exc = "CancelledError" -> "exited"
      [] OTHER -> "crashed"

\* the handler that re-queues the url of a failed crawl
on_crawl_exception_retry(st, u) == QueuePut(st, u)

\* process_one, `except Exception as exc: pass`: the shared state is left as
\* the raising crawl left it, the url is not queued again
on_crawl_exception(st, u) == st

\* a crawl that acknowledges the dequeue first and admits the links after
crawl_end_ackfirst(st, found) ==
    {[st |-> r, exc |-> "none", ev |-> <<"ack", "admit">>] :
        r \in on_found_links(process_one_end(st, "none").st, found)}

\* a successful Crawler.crawl from parse_links on, in the order of the code:
\* on_found_links (line 163) inside crawl, then task_done in the finally of
\* process_one (line 149)
crawl_end(st, found) ==
    {[st |-> process_one_end(r, "none").st,
      exc |-> process_one_end(r, "none").exc,
      ev |-> <<"admit", "ack">>] : r \in on_found_links(st, found)}

\* number of task_done calls between the current state and st
AcksIn(st) == unfinished_tasks + (Len(st.todo) - Len(todo)) - st.unfinished_tasks

\* a worker leaves process_one in shared state st with exception exc pending.
\* The real task runs on into the next todo.get() without suspending; the
\* model lets other tasks run in between, which only adds interleavings.
Leave(w, st, exc) ==
    /\ Store(st)
    /\ acks' = IF AcksIn(st) > 0 THEN Append(acks, url[w]) ELSE acks
    /\ pc' = [pc EXCEPT ![w] = worker_loop(exc)]
    /\ url' = [url EXCEPT ![w] = NoUrl]
    /\ li' = [li EXCEPT ![w] = 0]

\* run(): prime the queue, create the worker tasks, reach todo.join(); with
\* nothing on the queue join does not suspend and run() goes on to cancel
RunStart ==
    /\ runpc = "start"
    /\ \E r \in on_found_links(Cur, start_urls) :
        /\ Store(r)
        /\ admits' = Append(admits, start_urls)
        /\ pc' = [w \in Workers |-> "new"]
        /\ IF join_returns(r)
           THEN runpc' = "returned" /\ cancelReq' = CancelAll
           ELSE runpc' = "join" /\ cancelReq' = cancelReq
    /\ UNCHANGED <<cfgvars, done, entries, url, li, gets, acks, failed, fetched, events>>

\* run() resumes from todo.join(), cancels every worker and returns
RunJoin ==
    /\ runpc = "join"
    /\ join_returns(Cur)
    /\ runpc' = "returned"
    /\ cancelReq' = CancelAll
    /\ UNCHANGED <<cfgvars, todo, unfinished_tasks, seen, done, total, entries,
                   pc, url, li, histvars>>

\* a worker task runs for the first time and reaches todo.get()
WorkerStart(w) ==
    /\ pc[w] = "new"
    /\ ~cancelReq[w]
    /\ pc' = [pc EXCEPT ![w] = "get"]
    /\ UNCHANGED <<cfgvars, todo, unfinished_tasks, seen, done, total, entries,
                   runpc, url, li, cancelReq, histvars>>

\* process_one: todo.get() gives the head of the queue; crawl starts and
\* suspends in asyncio.sleep
Dequeue(w) ==
    /\ pc[w] = "get"
    /\ ~cancelReq[w]
    /\ todo # <<>>
    /\ url' = [url EXCEPT ![w] = Head(todo)]
    /\ todo' = Tail(todo)
    /\ gets' = Append(gets, <<w, Head(todo)>>)
    /\ pc' = [pc EXCEPT ![w] = "sleep"]
    /\ UNCHANGED <<cfgvars, unfinished_tasks, seen, done, total, entries,
                   runpc, li, cancelReq, puts, acks, admits, failed, fetched, events>>

\* the sleep is over: Crawler.crawl issues client.get; SpellReader.crawl
\* issues the get of the first lang, or with no lang appends the record
Sleep(w) ==
    /\ pc[w] = "sleep"
    /\ ~cancelReq[w]
    /\ IF variant = "SpellReader" /\ langs = <<>>
       THEN /\ entries' = Append(entries, url[w])
            /\ LET e == process_one_end(Cur, "none") IN Leave(w, e.st, e.exc)
       ELSE /\ pc' = [pc EXCEPT ![w] = "fetch"]
            /\ li' = [li EXCEPT ![w] = 1]
            /\ UNCHANGED <<todo, unfinished_tasks, seen, total, entries, url,
                           puts, acks>>
    /\ UNCHANGED <<cfgvars, done, runpc, cancelReq, gets, admits, failed, fetched, events>>

\* client.get raises (transport failure)
FetchFail(w) ==
    /\ pc[w] = "fetch"
    /\ ~cancelReq[w]
    /\ failed' = failed \cup {url[w]}
    /\ LET e == process_one_end(on_crawl_exception(Cur, url[w]), "Exception")
       IN  Leave(w, e.st, e.exc)
    /\ UNCHANGED <<cfgvars, done, entries, runpc, cancelReq, gets, admits, fetched, events>>

\* Crawler.crawl from the answer of client.get on
CrawlerFetchOk(w) ==
    /\ variant = "Crawler"
    /\ pc[w] = "fetch"
    /\ ~cancelReq[w]
    /\ LET pg == Page(url[w]) IN
       IF ParseRaises(filterer, pg.final, pg.hrefs)
       THEN /\ failed' = failed \cup {url[w]}
            /\ done' = done
            /\ admits' = admits
            /\ events' = events
            /\ LET e == process_one_end(on_crawl_exception(Cur, url[w]), "Exception")
               IN  Leave(w, e.st, e.exc)
       ELSE /\ failed' = failed
            /\ done' = done \cup {url[w]}
            /\ admits' = Append(admits, parse_links(filterer, pg.final, pg.hrefs))
            /\ \E e \in crawl_end(Cur, parse_links(filterer, pg.final, pg.hrefs)) :
                 /\ Leave(w, e.st, e.exc)
                 /\ events' = events \o [i \in DOMAIN e.ev |-> <<e.ev[i], url[w]>>]
    /\ fetched' = fetched \cup {url[w]}
    /\ UNCHANGED <<cfgvars, entries, runpc, cancelReq, gets>>

\* SpellReader.crawl from the answer of one client.get on
SpellFetchOk(w) ==
    /\ variant = "SpellReader"
    /\ pc[w] = "fetch"
    /\ ~cancelReq[w]
    /\ IF li[w] < Len(langs)
       THEN /\ li' = [li EXCEPT ![w] = @ + 1]
            /\ UNCHANGED <<todo, unfinished_tasks, seen, total, entries, pc, url,
                           puts, acks>>
       ELSE /\ entries' = Append(entries, url[w])
            /\ LET e == process_one_end(Cur, "none") IN Leave(w, e.st, e.exc)
    /\ UNCHANGED <<cfgvars, done, runpc, cancelReq, gets, admits, failed, fetched, events>>

\* the task's next step after worker.cancel(): CancelledError is thrown in
\* at the await the task is suspended on (a task that never ran is just
\* cancelled)
WorkerCancel(w) ==
    /\ cancelReq[w]
    /\ pc[w] \in {"new", "get", "sleep", "fetch"}
    /\ IF pc[w] = "new"
       THEN /\ pc' = [pc EXCEPT ![w] = "cancelled"]
            /\ UNCHANGED <<todo, unfinished_tasks, seen, total, url, li, puts, acks>>
       ELSE IF pc[w] = "get"
       THEN /\ pc' = [pc EXCEPT ![w] = worker_loop("CancelledError")]
            /\ UNCHANGED <<todo, unfinished_tasks, seen, total, url, li, puts, acks>>
       ELSE LET e == process_one_end(Cur, "CancelledError") IN Leave(w, e.st, e.exc)
    /\ UNCHANGED <<cfgvars, done, entries, runpc, cancelReq, gets, admits, failed,
                   fetched, events>>

Next ==
    \/ RunStart
    \/ RunJoin
    \/ \E w \in Workers : WorkerStart(w)
    \/ \E w \in Workers : Dequeue(w)
    \/ \E w \in Workers : Sleep(w)
    \/ \E w \in Workers : FetchFail(w)
    \/ \E w \in Workers : CrawlerFetchOk(w)
    \/ \E w \in Workers : SpellFetchOk(w)
    \/ \E w \in Workers : WorkerCancel(w)

Spec == Init /\ [][Next]_vars

\* every task that can run is eventually run by the event loop, every sleep
\* ends and every client.get eventually answers or raises
Fairness ==
    /\ WF_vars(RunStart)
    /\ WF_vars(RunJoin)
    /\ \A w \in 1..MaxWorkers :
        /\ WF_vars(w \in Workers /\ WorkerStart(w))
        /\ WF_vars(w \in Workers /\ Dequeue(w))
        /\ WF_vars(w \in Workers /\ Sleep(w))
        /\ WF_vars(w \in Workers /\ (FetchFail(w) \/ CrawlerFetchOk(w) \/ SpellFetchOk(w)))
        /\ WF_vars(w \in Workers /\ WorkerCancel(w))

LiveSpec == Init /\ [][Next]_vars /\ Fairness

TypeOK ==
    /\ runpc \in {"start", "join", "returned"}
    /\ \A w \in Workers : pc[w] \in {"none", "new", "get", "sleep", "fetch", "exited", "cancelled", "crashed"}
    /\ unfinished_tasks \in Nat
    /\ total \in Nat

\* ------------------------------------------------------------ properties
\* number of times x occurs in the sequence s
Count(s, x) == Cardinality({i \in DOMAIN s : s[i] = x})

NoRepeat(s) == \A i, j \in DOMAIN s : s[i] = s[j] => i = j

GotUrls == [i \in DOMAIN gets |-> gets[i][2]]

\* dequeued but not yet acknowledged
InFlight == Len(gets) - Len(acks)

\* C1: no address is passed to todo.put twice, and no address comes out of
\* todo.get twice, whatever the interleaving of the workers.
C1_EnqueuedAtMostOnce == NoRepeat(puts) /\ NoRepeat(GotUrls)

\* two different workers visited pages 1 and 2, which both link to page 3
C1_Witness ==
    /\ P1 \in done /\ P2 \in done
    /\ Count(puts, P3) = 1
    /\ \E i, j \in DOMAIN gets :
        gets[i][2] = P1 /\ gets[j][2] = P2 /\ gets[i][1] # gets[j][1]

\* the seeds that pass the admission predicate of the variant's put_todo
AdmissibleSeeds ==
    IF variant = "SpellReader" THEN start_urls
    ELSE {u \in start_urls : Contains(u, "?p=")}

\* C2: total never exceeds limit, the queue never holds more than limit
\* addresses, and with limit 1 and two admissible seeds exactly one seed
\* was put on the queue.
C2_CapRespected ==
    /\ total <= limit
    /\ Len(todo) <= limit
    /\ (runpc # "start" /\ limit = 1 /\ Cardinality(AdmissibleSeeds) >= 2)
          => Cardinality({u \in start_urls : Count(puts, u) > 0}) = 1

C2_Witness ==
    /\ limit = 1 /\ start_urls = {P1, P2} /\ runpc # "start"
    /\ total = 1 /\ Len(puts) = 1

\* C3 as stated: |done| <= |seen| <= limit in every reachable state.
C3_Original == Cardinality(done) <= Cardinality(seen) /\ Cardinality(seen) <= limit

\* C3 amended: |done| <= |seen| and |done| <= limit; seen itself also holds
\* the addresses put_todo refused and is not bounded by limit.
C3_DoneBounded == Cardinality(done) <= Cardinality(seen) /\ Cardinality(done) <= limit

C3_Witness ==
    /\ done # {}
    /\ Cardinality(done) = limit
    /\ Cardinality(seen) > limit

\* C4: worker.cancel() has been called only in states where the queue is
\* empty and no dequeued address is unacknowledged; no worker is inside
\* crawl then.
C4_CancelOnlyWhenIdle ==
    (\E w \in Workers : cancelReq[w]) =>
        /\ todo = <<>>
        /\ InFlight = 0
        /\ \A w \in Workers : pc[w] \notin {"sleep", "fetch"} /\ url[w] = NoUrl

\* cancellation after a crawl that visited at least two addresses
C4_Witness ==
    /\ runpc = "returned"
    /\ \A w \in Workers : cancelReq[w]
    /\ Len(acks) >= 2

\* every address that can reach the queue in the configurations
Addresses == {A, B, P1, P2, P3, R1, X1, X2}

\* C5: with at least one worker, under fair scheduling and fetches that
\* eventually answer or raise, run() eventually gets past todo.join() with
\* the queue empty and nothing in flight.
C5_Terminates == <>(runpc = "returned" /\ todo = <<>> /\ InFlight = 0)

\* a finished crawl of three addresses by a single worker
C5_Witness ==
    /\ runpc = "returned" /\ todo = <<>> /\ InFlight = 0
    /\ num_workers = 1
    /\ Len(acks) >= 3

\* C6: every address todo.get handed out is eventually acknowledged by
\* task_done, and never more than once, whether crawl returned or raised.
C6_EventuallyAcked ==
    /\ [](\A u \in Addresses : Count(acks, u) <= 1)
    /\ \A u \in Addresses : (Count(GotUrls, u) > 0) ~> (Count(acks, u) = 1)

\* one acknowledged address whose crawl raised and one whose crawl returned
C6_Witness ==
    /\ \E u \in failed : Count(acks, u) = 1
    /\ \E u \in done : Count(acks, u) = 1

\* C7: a crawl that raises sends its worker back to todo.get(), and no
\* worker task ends before run() has cancelled it.
C7_FailureDoesNotStopWorker ==
    /\ [](\A w \in Workers :
            /\ pc[w] # "crashed"
            /\ pc[w] \in {"exited", "cancelled"} => cancelReq[w])
    /\ [][\A w \in Workers :
            (pc[w] = "fetch" /\ url[w] \notin failed /\ url[w] \in failed')
                => pc'[w] = "get"]_vars

\* a worker dequeued again after a crawl of its own had raised
C7_Witness ==
    \E i, j \in DOMAIN gets :
        /\ i < j
        /\ gets[i][1] = gets[j][1]
        /\ gets[i][2] \in failed

\* the addresses worker w has dequeued and not acknowledged
Held(w) == {i \in DOMAIN gets : gets[i][1] = w /\ Count(acks, gets[i][2]) = 0}

\* C8: at most num_workers addresses are dequeued and unacknowledged, by the
\* queue's own count and by the history, and no worker holds two.
C8_BoundedConcurrency ==
    /\ InFlight <= num_workers
    /\ unfinished_tasks - Len(todo) = InFlight
    /\ \A w \in Workers : Cardinality(Held(w)) <= 1

\* both workers of a pool of two are inside crawl
C8_Witness ==
    /\ num_workers = 2
    /\ InFlight = 2
    /\ \A w \in Workers : Cardinality(Held(w)) = 1 /\ pc[w] \in {"sleep", "fetch"}

\* the address sets the configuration makes the program call
\* on_found_links with, and their subsets
AdmitArgs ==
    UNION {SUBSET T : T \in {start_urls} \cup
              {parse_links(filterer, Page(u).final, Page(u).hrefs) : u \in DOMAIN web}}

\* C9: in every reachable state, a second on_found_links(S) directly after
\* a first one leaves seen, todo, total and the queue's count as the first
\* call left them, for every order of iteration.
C9_AdmitIdempotent ==
    \A S \in AdmitArgs :
        \A r \in on_found_links(Cur, S) : on_found_links(r, S) = {r}

\* two consecutive calls of on_found_links got the same non-empty set
C9_Witness ==
    \E i \in DOMAIN admits :
        /\ i + 1 \in DOMAIN admits
        /\ admits[i] # {}
        /\ admits[i + 1] = admits[i]

\* the crawl is over: run() has returned and every worker task has ended
CrawlOver ==
    /\ runpc = "returned"
    /\ \A w \in Workers : pc[w] \in {"exited", "cancelled"}

\* C10: seed /a on the allowed host, /a links to /b, /a#frag and
\* https://other.test/c, /b has no links, no fetch fails: when the crawl is
\* over /a has been visited, /b has been put on the queue and seen is
\* {/a, /b}.
C10_Scenario ==
    (/\ variant = "Crawler" /\ start_urls = {A}
     /\ web = WebTest /\ filterer = RuleTest
     /\ limit >= 2 /\ failed = {}
     /\ CrawlOver)
        => (A \in done /\ Count(puts, B) = 1 /\ seen = {A, B})

\* C11: in the state where run() has returned every worker task has ended;
\* none is still running or waiting for its cancellation to be delivered.
C11_ReturnAfterWorkersExit ==
    runpc = "returned" => \A w \in Workers : pc[w] \in {"exited", "cancelled"}

\* C12: once worker.cancel() has been called no todo.get() completes any
\* more and every worker task ends; a worker task ends only after its
\* cancel() was called.
C12_CancelStopsWorkers ==
    /\ [][(\E w \in Workers : cancelReq[w]) => gets' = gets]_vars
    /\ [](\A w \in Workers : pc[w] \in {"exited", "cancelled", "crashed"} => cancelReq[w])
    /\ \A w \in 1..MaxWorkers :
          (w \in Workers /\ cancelReq[w])
              ~> (w \notin Workers \/ pc[w] \in {"exited", "cancelled"})

\* every worker left its loop on the CancelledError, after a crawl that
\* gave each of two workers something to dequeue
C12_Witness ==
    /\ num_workers = 2
    /\ \A w \in Workers : pc[w] = "exited" /\ cancelReq[w]
    /\ \A w \in Workers : \E i \in DOMAIN gets : gets[i][1] = w

\* the step in which the crawl of worker w raises
Raises(w) == pc[w] = "fetch" /\ url[w] \notin failed /\ url[w] \in failed'

HasMalformed(u) == \E h \in Page(u).hrefs : Malformed(h)

\* C14: a page that was fetched and carries a malformed href next to
\* well-formed ones is still visited with success: once acknowledged it is in
\* done and its well-formed links that pass the filter are in seen.
C14_MalformedIgnored ==
    \A u \in fetched :
        (variant = "Crawler" /\ HasMalformed(u) /\ Count(acks, u) = 1)
            => /\ u \in done
               /\ u \notin failed
               /\ parse_links(filterer, Page(u).final, Page(u).hrefs) \subseteq seen

\* position of the event <<kind, u>> in events, 0 when it is not there
Pos(kind, u) ==
    IF \E i \in DOMAIN events : events[i] = <<kind, u>>
    THEN CHOOSE i \in DOMAIN events : events[i] = <<kind, u>>
    ELSE 0

\* C15 as stated: in a successful visit the dequeue is acknowledged first
\* and the discovered addresses are passed to on_found_links afterwards.
C15_Original ==
    \A u \in done : Pos("ack", u) > 0 /\ Pos("ack", u) < Pos("admit", u)

\* C15 amended: in a successful visit the discovered addresses are passed to
\* on_found_links first, inside crawl, and the dequeue is acknowledged
\* afterwards, in the finally of process_one.
C15_AdmitBeforeAck ==
    \A u \in done : Pos("admit", u) > 0 /\ Pos("admit", u) < Pos("ack", u)

\* a successful visit whose links put a new address on the queue
C15_Witness ==
    /\ P1 \in done
    /\ Count(puts, P2) = 1
    /\ Count(acks, P1) = 1

\* C16: total is 0 before run() primes the queue and counts the puts: in
\* every state it is the number of addresses on the queue plus those
\* dequeued and unacknowledged plus those acknowledged.
C16_TotalCountsPuts ==
    /\ runpc = "start" => total = 0
    /\ total = Len(puts)
    /\ total = Len(todo) + InFlight + Len(acks)

\* the counter has gone through queue, in-flight and acknowledged addresses
C16_Witness ==
    /\ total = 3
    /\ Len(todo) = 1 /\ InFlight = 1 /\ Len(acks) = 1

\* C17: with total = limit, on_found_links of any address set puts nothing
\* on the queue and leaves total alone; no step taken at the cap changes
\* either.
C17_NoAdmissionAtCap ==
    /\ [](total = limit =>
            \A S \in AdmitArgs : \A r \in on_found_links(Cur, S) :
                r.todo = todo /\ r.total = total /\ r.unfinished_tasks = unfinished_tasks)
    /\ [][total = limit => (puts' = puts /\ total' = total)]_vars

\* page 3 was found at the cap: it is in seen and was never queued
C17_Witness ==
    /\ variant = "Crawler"
    /\ limit > 0 /\ total = limit
    /\ P3 \in seen /\ Count(puts, P3) = 0
    /\ P1 \in done

\* the addresses passed to on_found_links so far
Admitted == UNION {admits[i] : i \in DOMAIN admits}

\* C18 as stated: seen is exactly the set of addresses ever put on the queue.
C18_Original == seen = Range(puts)

\* C18 amended: seen holds every address ever put on the queue, and is
\* exactly the set of addresses ever passed to on_found_links, enqueued or
\* not.
C18_SeenIsFound == Range(puts) \subseteq seen /\ seen = Admitted

\* /b was found on page 1 and never queued
C18_Witness ==
    /\ P1 \in done
    /\ B \in seen /\ Count(puts, B) = 0
    /\ Count(puts, P2) = 1

\* C19: in a SpellReader only seeds are ever put on the queue, every seed
\* is put by run(), and when run() has returned with no fetch failed,
\* entries holds exactly one record per distinct seed.
C19_SpellReaderRecords ==
    variant = "SpellReader" =>
        /\ Range(puts) \subseteq start_urls
        /\ runpc # "start" => (Range(puts) = start_urls /\ total = Cardinality(start_urls))
        /\ (runpc = "returned" /\ failed = {}) =>
              /\ Len(entries) = Cardinality(start_urls)
              /\ \A u \in start_urls : Count(entries, u) = 1

\* a finished SpellReader crawl of two addresses in two langs
C19_Witness ==
    /\ variant = "SpellReader"
    /\ runpc = "returned" /\ failed = {}
    /\ start_urls = {A, B} /\ langs = <<"en", "de">>
    /\ Len(entries) = 2

\* C20: when run() is past todo.join() every address ever put has been
\* dequeued once and acknowledged once, the acknowledgments number total,
\* and done holds only such addresses; run() waits in join only if something
\* was put, so with no seed admitted it gets past the join with no visit.
C20_JoinMeansAllAcked ==
    /\ runpc = "returned" =>
          /\ Len(acks) = total
          /\ \A u \in Range(puts) : Count(GotUrls, u) = 1 /\ Count(acks, u) = 1
          /\ done \subseteq Range(puts)
    /\ runpc = "join" => puts # <<>>
    /\ (runpc # "start" /\ puts = <<>>) => (runpc = "returned" /\ gets = <<>>)

\* run() is past the join of a crawl with a failed and a successful visit
C20_Witness ==
    /\ runpc = "returned"
    /\ total >= 2
    /\ failed # {} /\ done # {}

====
